---- MODULE Spec2Model ----
(***************************************************************************)
(* A model of syncall.py: one run of main, which reads every document of   *)
(* a search index, loads a CSV from blob storage, computes the ids of the  *)
(* index that the CSV lacks, and sends one batch delete for them.          *)
(*                                                                         *)
(* Text is a sequence of one-character strings.  Python values are records *)
(* [t, n, s]: t the type, n the integer part of a number, s the text of a  *)
(* str or the fraction digits of a float.  A dict is a sequence of         *)
(* [k, v] pairs with distinct keys, in insertion order.                    *)
(***************************************************************************)
EXTENDS Integers, Sequences, FiniteSets

VARIABLES pc, error, response, index_data, blob, csv_data, missing_ids, events

vars == <<pc, error, response, index_data, blob, csv_data, missing_ids, events>>

\* Bounds of the model: documents in a search response, data rows in the CSV.
MaxDocs == 2
MaxRows == 2

\* content[:30]
PreviewLen == 30

Min(a, b) == IF a < b THEN a ELSE b

BoundedSeq(S, n) == UNION {[1..k -> S] : k \in 0..n}

Range(s) == {s[i] : i \in 1..Len(s)}

NoDuplicates(s) == \A i, j \in 1..Len(s) : s[i] = s[j] => i = j

(***************************************************************************)
(* Python values                                                           *)
(***************************************************************************)
Null == [t |-> "null", n |-> 0, s |-> <<>>]
PyStr(s) == [t |-> "str", n |-> 0, s |-> s]
PyInt(n) == [t |-> "int", n |-> n, s |-> <<>>]
PyFloat(n, f) == [t |-> "float", n |-> n, s |-> f]
NaN == [t |-> "nan", n |-> 0, s |-> <<>>]

DigitSeq == <<"0", "1", "2", "3", "4", "5", "6", "7", "8", "9">>

DigitChars == Range(DigitSeq)

DigitVal(c) == (CHOOSE i \in 1..Len(DigitSeq) : DigitSeq[i] = c) - 1

\* int(text) of a text of digits: leading zeros carry no value
RECURSIVE ParseInt(_)
ParseInt(s) ==
    IF s = <<>> THEN 0
    ELSE 10 * ParseInt(SubSeq(s, 1, Len(s) - 1)) + DigitVal(s[Len(s)])

\* str(n) of a non-negative integer
RECURSIVE FormatInt(_)
FormatInt(n) ==
    IF n < 10 THEN <<DigitSeq[n + 1]>>
    ELSE FormatInt(n \div 10) \o <<DigitSeq[(n % 10) + 1]>>

RECURSIVE StripTrailingZeros(_)
StripTrailingZeros(s) ==
    IF s # <<>> /\ s[Len(s)] = "0" THEN StripTrailingZeros(SubSeq(s, 1, Len(s) - 1))
    ELSE s

DotAt(s) == IF \E i \in 1..Len(s) : s[i] = "."
            THEN CHOOSE i \in 1..Len(s) : s[i] = "."
            ELSE Len(s) + 1

\* float(text) of digits with at most one point
ParseFloat(s) ==
    LET d == DotAt(s)
        frac == StripTrailingZeros(SubSeq(s, d + 1, Len(s)))
    IN  PyFloat(ParseInt(SubSeq(s, 1, d - 1)), IF frac = <<>> THEN <<"0">> ELSE frac)

\* f'{v}'
PyFormat(v) ==
    CASE v.t = "str" -> v.s
      [] v.t = "int" -> FormatInt(v.n)
      [] v.t = "float" -> FormatInt(v.n) \o <<".">> \o v.s
      [] v.t = "nan" -> <<"n", "a", "n">>
      [] v.t = "null" -> <<"N", "o", "n", "e">>

(***************************************************************************)
(* dict                                                                    *)
(***************************************************************************)
DictKeys(d) == [i \in 1..Len(d) |-> d[i].k]

DictHas(d, key) == \E i \in 1..Len(d) : d[i].k = key

DictGet(d, key, default) ==
    IF DictHas(d, key) THEN d[CHOOSE i \in 1..Len(d) : d[i].k = key].v ELSE default

\* DictSet as d.setdefault(key, value): the first value of a key is kept
DictSetKeepFirst(d, key, value) ==
    IF DictHas(d, key) THEN d ELSE Append(d, [k |-> key, v |-> value])

\* d[key] = value: a key already held keeps its place and takes the new value
DictSet(d, key, value) ==
    IF DictHas(d, key)
    THEN [i \in 1..Len(d) |-> IF d[i].k = key THEN [k |-> key, v |-> value] ELSE d[i]]
    ELSE Append(d, [k |-> key, v |-> value])

(***************************************************************************)
(* What the run sends and prints, in order                                 *)
(***************************************************************************)
Request(op, body) == [kind |-> "request", op |-> op, body |-> body, id |-> <<>>, text |-> <<>>]

Stdout(what, id, text) == [kind |-> "print", op |-> what, body |-> <<>>, id |-> id, text |-> text]

NoError == [type |-> "none", at |-> "none"]

(***************************************************************************)
(* search_index                                                            *)
(***************************************************************************)
\* a text one character longer than the preview printed of it
LongContent == [i \in 1..(PreviewLen + 1) |-> "y"]

\* ids and contents of the documents the index may hold: a content is a
\* JSON string or null
IndexIds == {<<"5">>, <<"0", "5">>, <<"A">>}

IndexContents == {Null, PyStr(LongContent)}

Docs == [id : IndexIds, content : IndexContents]

ErrorStatuses == {404, 503}

NoResponse == [status |-> 0, docs |-> <<>>]

Responses ==
    {[status |-> 200, docs |-> d] : d \in BoundedSeq(Docs, MaxDocs)}
        \cup {[status |-> s, docs |-> <<>>] : s \in ErrorStatuses}

\* {doc["id"]: doc["content"] for doc in search_results["value"]}
RECURSIVE DictFromDocs(_)
DictFromDocs(docs) ==
    IF docs = <<>> THEN <<>>
    ELSE DictSet(DictFromDocs(SubSeq(docs, 1, Len(docs) - 1)),
                 docs[Len(docs)].id, docs[Len(docs)].content)

\* search_index with response.raise_for_status() in place of the status test
search_index_raise_for_status(resp) ==
    [raised |-> resp.status # 200, data |-> DictFromDocs(resp.docs), out |-> <<>>]

\* the body of search_index once requests.post has returned resp
search_index(resp) ==
    IF resp.status = 200
    THEN [raised |-> FALSE, data |-> DictFromDocs(resp.docs), out |-> <<>>]
    ELSE [raised |-> FALSE, data |-> <<>>, out |-> <<Stdout("search_error", <<>>, <<>>)>>]

(***************************************************************************)
(* load_csv_from_blob                                                      *)
(***************************************************************************)
IdCells == {<<>>, <<"5">>, <<"0", "5">>, <<"A">>}

ContentCells == {LongContent, <<"1", ".", "5">>}

CellsOf(column) == IF column = "id" THEN IdCells ELSE ContentCells

Headers == {{"id", "content"}, {"content"}, {"id"}}

RowsOf(header) == {r \in [header -> IdCells \cup ContentCells] : \A c \in header : r[c] \in CellsOf(c)}

NoBlob == [ok |-> FALSE, header |-> {}, rows |-> <<>>]

Blobs == UNION {{[ok |-> TRUE, header |-> h, rows |-> r] : r \in BoundedSeq(RowsOf(h), MaxRows)} : h \in Headers}

IsIntText(c) == c # <<>> /\ \A i \in 1..Len(c) : c[i] \in DigitChars

IsFloatText(c) ==
    /\ \A i \in 1..Len(c) : c[i] \in DigitChars \cup {"."}
    /\ \E i \in 1..Len(c) : c[i] \in DigitChars
    /\ Cardinality({i \in 1..Len(c) : c[i] = "."}) <= 1

\* the dtype pd.read_csv infers for a column from the text of its cells
ColumnDtype(cells) ==
    IF cells = <<>> THEN "object"
    ELSE IF \A i \in 1..Len(cells) : IsIntText(cells[i]) THEN "int64"
    ELSE IF \A i \in 1..Len(cells) : cells[i] = <<>> \/ IsFloatText(cells[i]) THEN "float64"
    ELSE "object"

\* the value pd.read_csv stores for a cell of a column of that dtype
ParseCell(dtype, cell) ==
    IF cell = <<>> THEN NaN
    ELSE IF dtype = "int64" THEN PyInt(ParseInt(cell))
    ELSE IF dtype = "float64" THEN ParseFloat(cell)
    ELSE PyStr(cell)

\* a line of the file with no text in it, which pd.read_csv skips
BlankLine(row) == \A c \in DOMAIN row : row[c] = <<>>

NotBlankLine(row) == ~BlankLine(row)

\* pd.read_csv(StringIO(csv_data))
read_csv(b) ==
    LET lines == SelectSeq(b.rows, NotBlankLine)
        dtype == [c \in b.header |-> ColumnDtype([i \in 1..Len(lines) |-> lines[i][c]])]
    IN  [columns |-> b.header,
         dtype |-> dtype,
         rows |-> [i \in 1..Len(lines) |-> [c \in b.header |-> ParseCell(dtype[c], lines[i][c])]]]

\* the dtype of the Series df.iterrows() builds for every row
RowDtype(df) ==
    IF \A c \in df.columns : df.dtype[c] = "int64" THEN "int64"
    ELSE IF \A c \in df.columns : df.dtype[c] \in {"int64", "float64"} THEN "float64"
    ELSE "object"

Upcast(v, dtype) == IF dtype = "float64" /\ v.t = "int" THEN PyFloat(v.n, <<"0">>) ELSE v

\* the i-th row of df.iterrows()
RowSeries(df, i) == [c \in df.columns |-> Upcast(df.rows[i][c], RowDtype(df))]

\* f'{row["id"]}'
RowKey(df, i) == PyFormat(RowSeries(df, i)["id"])

\* {f'{row["id"]}': row["content"] for _, row in df.iterrows()} over the first n rows
RECURSIVE DictFromRows(_, _)
DictFromRows(df, n) ==
    IF n = 0 THEN [raised |-> FALSE, data |-> <<>>]
    ELSE LET before == DictFromRows(df, n - 1)
         IN  IF before.raised \/ {"id", "content"} \ df.columns # {}
             THEN [raised |-> TRUE, data |-> <<>>]
             ELSE [raised |-> FALSE,
                   data |-> DictSet(before.data, RowKey(df, n), RowSeries(df, n)["content"])]

\* the body of load_csv_from_blob once the blob b is downloaded
load_csv_from_blob(b) == LET df == read_csv(b) IN DictFromRows(df, Len(df.rows))

(***************************************************************************)
(* delete_documents_from_index                                             *)
(***************************************************************************)
\* "Content not available"
ContentNotAvailable ==
    PyStr(<<"C", "o", "n", "t", "e", "n", "t", " ", "n", "o", "t", " ", "a", "v", "a", "i", "l", "a", "b", "l", "e">>)

\* content[:30]
Preview(content) == PyStr(SubSeq(content.s, 1, Min(PreviewLen, Len(content.s))))

\* the logging loop: subscripting a content that is no str raises TypeError
RECURSIVE LogCandidates(_, _)
LogCandidates(ids, data) ==
    IF ids = <<>> THEN [raised |-> FALSE, out |-> <<>>]
    ELSE LET before == LogCandidates(SubSeq(ids, 1, Len(ids) - 1), data)
             id == ids[Len(ids)]
             content == DictGet(data, id, ContentNotAvailable)
         IN  IF before.raised \/ content.t # "str"
             THEN [raised |-> TRUE, out |-> before.out]
             ELSE [raised |-> FALSE,
                   out |-> Append(before.out, Stdout("candidate", id, Preview(content).s))]

\* [{"@search.action": "delete", "id": doc_id} for doc_id in doc_ids_to_delete]
DeleteData(ids) == [i \in 1..Len(ids) |-> [action |-> "delete", id |-> ids[i]]]

DeleteOutcomes == {200} \cup ErrorStatuses \cup {-1}

\* delete_documents_from_index that sends the request again after a failure
delete_documents_with_retry(ids, data, outcome) ==
    LET log == LogCandidates(ids, data)
        head == <<Stdout("deleting", <<>>, <<>>)>> \o log.out
        sent == head \o <<Request("delete", DeleteData(ids))>>
    IN  IF log.raised THEN [raised |-> "TypeError", out |-> head]
        ELSE IF outcome = 200
             THEN [raised |-> "none", out |-> Append(sent, Stdout("deleted", <<>>, FormatInt(Len(ids))))]
             ELSE [raised |-> "none", out |-> sent \o <<Request("delete", DeleteData(ids))>>]

\* delete_documents_from_index: outcome is the status of the response, or
\* -1 when requests.post raises
delete_documents_from_index(ids, data, outcome) ==
    LET log == LogCandidates(ids, data)
        head == <<Stdout("deleting", <<>>, <<>>)>> \o log.out
        sent == head \o <<Request("delete", DeleteData(ids))>>
    IN  IF log.raised THEN [raised |-> "TypeError", out |-> head]
        ELSE IF outcome = -1 THEN [raised |-> "RequestException", out |-> sent]
        ELSE IF outcome = 200
             THEN [raised |-> "none", out |-> Append(sent, Stdout("deleted", <<>>, FormatInt(Len(ids))))]
             ELSE [raised |-> "none", out |-> Append(sent, Stdout("delete_error", <<>>, FormatInt(outcome)))]

(***************************************************************************)
(* main                                                                    *)
(***************************************************************************)
\* the comprehension turned round, as the comment above it reads: the ids of
\* the CSV that the index lacks
RECURSIVE MissingIdsOfCsv(_, _)
MissingIdsOfCsv(index, csv) ==
    IF csv = <<>> THEN <<>>
    ELSE LET rest == MissingIdsOfCsv(index, SubSeq(csv, 1, Len(csv) - 1))
             key == csv[Len(csv)].k
         IN  IF DictHas(index, key) THEN rest ELSE Append(rest, key)

\* [doc_id for doc_id in index_data if doc_id not in csv_data]
RECURSIVE MissingIds(_, _)
MissingIds(index, csv) ==
    IF index = <<>> THEN <<>>
    ELSE LET rest == MissingIds(SubSeq(index, 1, Len(index) - 1), csv)
             key == index[Len(index)].k
         IN  IF DictHas(csv, key) THEN rest ELSE Append(rest, key)

\* the branch taken whatever the list holds
ShouldDeleteAlways(ids) == TRUE

\* if missing_ids:
ShouldDelete(ids) == ids # <<>>

Init ==
    /\ pc = "start"
    /\ error = NoError
    /\ response = NoResponse
    /\ index_data = <<>>
    /\ blob = NoBlob
    /\ csv_data = <<>>
    /\ missing_ids = <<>>
    /\ events = <<>>

Crash(type, at) == pc' = "crashed" /\ error' = [type |-> type, at |-> at]

\* index_data = search_index(...): requests.post raises, or a response comes.
\* search_index has no try and no raise of its own: an exception of
\* requests.post leaves it, and so main, uncaught.
SearchIndex ==
    /\ pc = "start"
    /\ \/ /\ Crash("RequestException", "search_index")
          /\ events' = Append(events, Request("search", <<>>))
          /\ UNCHANGED <<response, index_data>>
       \/ \E resp \in Responses :
            LET res == search_index(resp)
            IN  /\ response' = resp
                /\ events' = events \o <<Request("search", <<>>)>> \o res.out
                /\ IF res.raised
                   THEN Crash("HTTPError", "search_index") /\ UNCHANGED index_data
                   ELSE pc' = "searched" /\ index_data' = res.data /\ UNCHANGED error
    /\ UNCHANGED <<blob, csv_data, missing_ids>>

\* csv_data = load_csv_from_blob(...): the download raises, or a blob comes
LoadCsv ==
    /\ pc = "searched"
    /\ events' = Append(events, Request("download", <<>>))
    /\ \/ /\ Crash("DownloadError", "load_csv_from_blob")
          /\ UNCHANGED <<blob, csv_data>>
       \/ \E b \in Blobs :
            LET res == load_csv_from_blob(b)
            IN  /\ blob' = b
                /\ IF res.raised
                   THEN Crash("KeyError", "load_csv_from_blob") /\ UNCHANGED csv_data
                   ELSE pc' = "loaded" /\ csv_data' = res.data /\ UNCHANGED error
    /\ UNCHANGED <<response, index_data, missing_ids>>

\* missing_ids = [...]
Reconcile ==
    /\ pc = "loaded"
    /\ missing_ids' = MissingIds(index_data, csv_data)
    /\ pc' = "reconciled"
    /\ UNCHANGED <<error, response, index_data, blob, csv_data, events>>

\* if missing_ids: delete_documents_from_index(...)
DeleteDocuments ==
    /\ pc = "reconciled"
    /\ ShouldDelete(missing_ids)
    /\ \E outcome \in DeleteOutcomes :
         LET res == delete_documents_from_index(missing_ids, index_data, outcome)
         IN  /\ events' = events \o res.out
             /\ IF res.raised # "none"
                THEN Crash(res.raised, "delete_documents_from_index")
                ELSE pc' = "done" /\ UNCHANGED error
    /\ UNCHANGED <<response, index_data, blob, csv_data, missing_ids>>

\* else: print("No documents to delete. ...")
NoOp ==
    /\ pc = "reconciled"
    /\ ~ShouldDelete(missing_ids)
    /\ events' = Append(events, Stdout("noop", <<>>, <<>>))
    /\ pc' = "done"
    /\ UNCHANGED <<error, response, index_data, blob, csv_data, missing_ids>>

Next == SearchIndex \/ LoadCsv \/ Reconcile \/ DeleteDocuments \/ NoOp

Spec == Init /\ [][Next]_vars

(***************************************************************************)
(* Vocabulary of the properties                                            *)
(***************************************************************************)
IsRequest(e) == e.kind = "request"

IsDeleteRequest(e) == e.kind = "request" /\ e.op = "delete"

IsCandidateLine(e) == e.kind = "print" /\ e.op = "candidate"

Requests == SelectSeq(events, IsRequest)

RequestOps == [i \in 1..Len(Requests) |-> Requests[i].op]

DeleteRequests == SelectSeq(events, IsDeleteRequest)

CandidateLines == SelectSeq(events, IsCandidateLine)

Printed(what) == \E i \in 1..Len(events) : events[i].kind = "print" /\ events[i].op = what

Sent(op) == \E i \in 1..Len(events) : events[i].kind = "request" /\ events[i].op = op

\* line 135 of main has run
Reconciled ==
    \/ pc \in {"reconciled", "done"}
    \/ pc = "crashed" /\ error.at = "delete_documents_from_index"

Ended == pc \in {"done", "crashed"}

SearchFailed == response.status \notin {0, 200}

IndexKeys == DictKeys(index_data)

\* the order main makes its calls in
CallOrder == <<"search", "download", "delete">>

\* the last of the positions of s that hold what position i holds
IsLast(s, i) == \A j \in 1..Len(s) : s[j] = s[i] => j <= i

PositionOf(s, x) == CHOOSE i \in 1..Len(s) : s[i] = x

\* the text of the id cell of some row of the downloaded CSV
InCsvIdColumn(id) ==
    /\ blob.ok
    /\ "id" \in blob.header
    /\ \E i \in 1..Len(blob.rows) : blob.rows[i]["id"] = id

C2_NoDeleteForEmptySet ==
    /\ DeleteRequests # <<>> => (Reconciled /\ missing_ids # <<>>)
    /\ Printed("noop") => (Reconciled /\ missing_ids = <<>>)
    /\ (Reconciled /\ missing_ids = <<>> /\ Ended) =>
          (pc = "done" /\ Printed("noop") /\ DeleteRequests = <<>>)

\* identical, non-empty snapshots: the run has ended with the no-op message
C2_Witness ==
    /\ pc = "done"
    /\ index_data # <<>>
    /\ index_data = csv_data
    /\ Printed("noop")
    /\ DeleteRequests = <<>>

(***************************************************************************)
(* C3, as claimed: after a search response of a status other than 200 the  *)
(* index snapshot and the deletion set are empty, no delete request is     *)
(* sent, and the run never ends in an unhandled exception.                 *)
(***************************************************************************)
C3_FailedSearchNeverCrashes ==
    SearchFailed =>
        /\ index_data = <<>>
        /\ missing_ids = <<>>
        /\ DeleteRequests = <<>>
        /\ pc # "crashed"

(***************************************************************************)
(* C3, amended: after a search response of a status other than 200 the     *)
(* error is printed, the index snapshot and the deletion set are empty, no *)
(* delete request is sent, search_index raises nothing, and the only       *)
(* exception that can end the run is one raised by load_csv_from_blob.     *)
(***************************************************************************)
C3_FailedSearchDegrades ==
    SearchFailed =>
        /\ Printed("search_error")
        /\ index_data = <<>>
        /\ missing_ids = <<>>
        /\ DeleteRequests = <<>>
        /\ pc = "crashed" => error.at = "load_csv_from_blob"
        /\ pc = "reconciled" => ENABLED NoOp

\* a failed search followed by a good download: the run ended normally, deleting nothing
C3_Witness ==
    /\ SearchFailed
    /\ pc = "done"
    /\ blob.ok
    /\ csv_data # <<>>
    /\ Printed("noop")

(***************************************************************************)
(* C4: once the download has failed, or has brought a CSV with no id       *)
(* column, the run has ended in an exception of load_csv_from_blob and no  *)
(* delete request is ever sent.                                            *)
(***************************************************************************)
C4_MalformedCsvIsFatal ==
    (Sent("download") /\ (~blob.ok \/ "id" \notin blob.header)) =>
        /\ pc = "crashed"
        /\ error.at = "load_csv_from_blob"
        /\ DeleteRequests = <<>>

(***************************************************************************)
(* C5: no error of the search call or of the delete call ends the run in   *)
(* an exception: a run ends in an exception only if load_csv_from_blob     *)
(* raised it.                                                              *)
(***************************************************************************)
C5_OnlyStorageErrorsAreFatal ==
    pc = "crashed" => error.at = "load_csv_from_blob"

(***************************************************************************)
(* C6: an index id whose text is the id of some row of the CSV is present  *)
(* in the reference snapshot, and so is not in the deletion set.           *)
(***************************************************************************)
C6_CsvIdsMatchIndexIds ==
    Reconciled =>
        \A k \in Range(IndexKeys) :
            InCsvIdColumn(k) => (DictHas(csv_data, k) /\ k \notin Range(missing_ids))

(***************************************************************************)
(* C7: the calls of a run are, in order, a beginning of: one search        *)
(* request, one blob download, one delete request.  The search request is  *)
(* the first thing a run does; the download is sent only after the search  *)
(* has returned a response; the delete request only after the CSV is       *)
(* downloaded, parsed and compared.                                        *)
(***************************************************************************)
C7_CallsInOrderAndOnce ==
    /\ Len(RequestOps) <= Len(CallOrder)
    /\ \A i \in 1..Len(RequestOps) : RequestOps[i] = CallOrder[i]
    /\ pc # "start" => (events # <<>> /\ events[1] = Request("search", <<>>))
    /\ Sent("download") => (response.status # 0 /\ pc # "searched")
    /\ Sent("delete") => (blob.ok /\ Reconciled /\ Ended)

\* a run that made all three calls
C7_Witness ==
    /\ Ended
    /\ RequestOps = CallOrder
    /\ Len(events) > Len(CallOrder)

(***************************************************************************)
(* C8: a run whose deletion set is not empty ends having printed one line  *)
(* per id of the set, in order, and then sent exactly one delete request   *)
(* whose body is one delete action per id of the set, in the same order.   *)
(***************************************************************************)
C8_BatchDeleteSent ==
    (Reconciled /\ missing_ids # <<>> /\ Ended) =>
        /\ Len(DeleteRequests) = 1
        /\ Len(DeleteRequests[1].body) = Len(missing_ids)
        /\ \A i \in 1..Len(missing_ids) :
             /\ DeleteRequests[1].body[i].id = missing_ids[i]
             /\ DeleteRequests[1].body[i].action = "delete"
        /\ [i \in 1..Len(CandidateLines) |-> CandidateLines[i].id] = missing_ids
        /\ \A i, j \in 1..Len(events) :
             (IsCandidateLine(events[i]) /\ IsDeleteRequest(events[j])) => i < j

(***************************************************************************)
(* C9: records that share an id do not make a snapshot fail: each snapshot *)
(* holds every id of its records once, with the content of the last record *)
(* of that id; the deletion set and the body of a delete request hold no   *)
(* id twice.                                                               *)
(***************************************************************************)
C9_DuplicateIdsOverwrite ==
    /\ response.status = 200 =>
         LET ids == [i \in 1..Len(response.docs) |-> response.docs[i].id]
         IN  /\ ~(pc = "crashed" /\ error.at = "search_index")
             /\ NoDuplicates(IndexKeys)
             /\ Range(IndexKeys) = Range(ids)
             /\ \A i \in 1..Len(ids) :
                  IsLast(ids, i) => DictGet(index_data, ids[i], NaN) = response.docs[i].content
    /\ (blob.ok /\ blob.header = {"id", "content"}) =>
         LET df == read_csv(blob)
             ids == [i \in 1..Len(df.rows) |-> RowKey(df, i)]
         IN  /\ ~(pc = "crashed" /\ error.at = "load_csv_from_blob")
             /\ NoDuplicates(DictKeys(csv_data))
             /\ Range(DictKeys(csv_data)) = Range(ids)
             /\ \A i \in 1..Len(ids) :
                  IsLast(ids, i) => DictGet(csv_data, ids[i], Null) = RowSeries(df, i)["content"]
    /\ NoDuplicates(missing_ids)
    /\ \A r \in 1..Len(DeleteRequests) :
         NoDuplicates([i \in 1..Len(DeleteRequests[r].body) |-> DeleteRequests[r].body[i].id])

\* the search response and the CSV each hold one id twice, with two contents,
\* and the id of the response went into a delete request once
C9_Witness ==
    /\ Len(response.docs) = 2
    /\ response.docs[1].id = response.docs[2].id
    /\ response.docs[1].content # response.docs[2].content
    /\ blob.ok /\ blob.header = {"id", "content"} /\ Len(blob.rows) = 2
    /\ blob.rows[1]["id"] = blob.rows[2]["id"]
    /\ blob.rows[1]["content"] # blob.rows[2]["content"]
    /\ Len(csv_data) = 1
    /\ Len(DeleteRequests) = 1
    /\ Len(DeleteRequests[1].body) = 1
    /\ DeleteRequests[1].body[1].id = response.docs[1].id

(***************************************************************************)
(* C10: every entry of a delete request is a delete action for an id that  *)
(* the search response of the run returned, that is not a key of the       *)
(* reference snapshot and that is not an id of the CSV.                    *)
(***************************************************************************)
C10_OnlyAbsentIdsDeleted ==
    \A r \in 1..Len(DeleteRequests) :
        \A i \in 1..Len(DeleteRequests[r].body) :
            LET entry == DeleteRequests[r].body[i]
            IN  /\ entry.action = "delete"
                /\ \E d \in 1..Len(response.docs) : response.docs[d].id = entry.id
                /\ ~DictHas(csv_data, entry.id)
                /\ ~InCsvIdColumn(entry.id)

\* C10 without its last part: the ids sent for deletion were returned by the
\* search and are no key of the reference snapshot, and every action is a delete
DeletedIdsAreIndexOnlyKeys ==
    \A r \in 1..Len(DeleteRequests) :
        \A i \in 1..Len(DeleteRequests[r].body) :
            LET entry == DeleteRequests[r].body[i]
            IN  /\ entry.action = "delete"
                /\ \E d \in 1..Len(response.docs) : response.docs[d].id = entry.id
                /\ ~DictHas(csv_data, entry.id)

====
